---- MODULE Spec2Model ----
(***************************************************************************)
(* Model of hooks/charmhelpers/contrib/network/ip.py: the four helpers     *)
(* get_address_in_network, is_address_in_network, get_iface_for_address    *)
(* and get_netmask_for_address, over one snapshot of the host's interface  *)
(* table (netifaces) and the netaddr parsing/containment library.          *)
(*                                                                         *)
(* Addresses are Width bits wide instead of 32.  An address string is the  *)
(* sequence of its binary digits, most significant first; a string of      *)
(* another length, or holding a digit that is not binary, is malformed.    *)
(* Only the IPv4 family is modelled (the scans read AF_INET entries only). *)
(***************************************************************************)
EXTENDS Integers, Sequences, FiniteSets, TLC

\* ------------------------------------------------------------- bounds
\* Bits of an address (32 for IPv4 in netaddr).
Width == 2
\* Interfaces netifaces.interfaces() lists.
MaxIfaces == 2
\* IPv4 entries configured on the host, over all interfaces.
MaxEntries == 2

VARIABLES
    ifaces,      \* the interface table: what netifaces reports, in its order
    call,        \* the operation last called with its arguments, or Idle
    outcome,     \* how that call ended: a return, a raise, a process exit
    prev,        \* the call (and outcome) the caller made just before it
    logged,      \* hookenv.log entries emitted so far
    enumerated   \* whether the last call asked netifaces for the interfaces

vars == <<ifaces, call, outcome, prev, logged, enumerated>>

\* ------------------------------------------------------------- values
None == [tag |-> "None"]
Str(s) == [tag |-> "str", s |-> s]

Digit == {0, 1}
Pow2(n) == 2 ^ n
MaxInt == Pow2(Width) - 1

\* The number the first i digits of s spell.
RECURSIVE DigitsValue(_, _)
DigitsValue(s, i) == IF i = 0 THEN 0 ELSE 2 * DigitsValue(s, i - 1) + s[i]

\* netaddr.IPAddress(s): the value of a well-formed string, else AddrFormatError.
IPAddress(s) ==
    IF Len(s) = Width /\ \A i \in 1..Len(s) : s[i] \in Digit
    THEN [ok |-> TRUE, value |-> DigitsValue(s, Width)]
    ELSE [ok |-> FALSE, value |-> 0]

\* A bug: the digits come out least significant first.
AddrStrReversed(v) == [i \in 1..Width |-> (v \div Pow2(i - 1)) % 2]

\* str(netaddr.IPAddress): the presentation form of a value.
AddrStr(v) == [i \in 1..Width |-> (v \div Pow2(Width - i)) % 2]

\* IPAddress.is_netmask(): the complement plus one is a power of two.
IsNetmask(v) == \E p \in 0..Width : (MaxInt - v) + 1 = Pow2(p)
\* IPAddress.is_hostmask(): the value plus one is a power of two.
IsHostmask(v) == \E p \in 0..Width : v + 1 = Pow2(p)
NetmaskToPrefix(v) == CHOOSE p \in 0..Width : (MaxInt - v) + 1 = Pow2(Width - p)
HostmaskToPrefix(v) == CHOOSE p \in 0..Width : v + 1 = Pow2(Width - p)

\* A network string "ip", "ip/prefixlen" or "ip/mask".
Bare(ip) == [ip |-> ip, sfx |-> "none", n |-> 0, m |-> <<>>]
Slash(ip, n) == [ip |-> ip, sfx |-> "plen", n |-> n, m |-> <<>>]
\* "%s/%s" % (addr, netmask)
SlashMask(ip, m) == [ip |-> ip, sfx |-> "mask", n |-> 0, m |-> m]

NoNetwork == [ok |-> FALSE, value |-> 0, prefixlen |-> 0]

\* netaddr.IPNetwork(s): the address keeps its host bits; the part after the
\* slash is a prefix length in 0..Width, or a netmask, or a hostmask.
IPNetwork(s) ==
    LET ip == IPAddress(s.ip)
    IN  IF ~ip.ok THEN NoNetwork
        ELSE IF s.sfx = "none"
             THEN [ok |-> TRUE, value |-> ip.value, prefixlen |-> Width]
        ELSE IF s.sfx = "plen"
             THEN IF s.n \in 0..Width
                  THEN [ok |-> TRUE, value |-> ip.value, prefixlen |-> s.n]
                  ELSE NoNetwork
        ELSE LET mask == IPAddress(s.m)
             IN  IF ~mask.ok THEN NoNetwork
                 ELSE IF IsNetmask(mask.value)
                      THEN [ok |-> TRUE, value |-> ip.value,
                            prefixlen |-> NetmaskToPrefix(mask.value)]
                 ELSE IF IsHostmask(mask.value)
                      THEN [ok |-> TRUE, value |-> ip.value,
                            prefixlen |-> HostmaskToPrefix(mask.value)]
                 ELSE NoNetwork

\* IPNetwork.first and IPNetwork.last: the ends of the range.
First(net) == (net.value \div Pow2(Width - net.prefixlen)) * Pow2(Width - net.prefixlen)
Last(net) == First(net) + Pow2(Width - net.prefixlen) - 1

\* A bug: the last address of the range is left out.
AddressInNetworkOpenEnd(v, net) == v >= First(net) /\ v < Last(net)

\* `address in network` for an IPAddress.
AddressInNetwork(v, net) == v >= First(net) /\ v <= Last(net)
\* A bug: only the interface's address is tested, not its whole subnet.
NetworkInNetworkByAddress(cidr, net) == cidr.value >= First(net) /\ cidr.value <= Last(net)

\* `cidr in network` for an IPNetwork: the whole range lies inside.
NetworkInNetwork(cidr, net) == First(cidr) >= First(net) /\ Last(cidr) <= Last(net)

\* ------------------------------------------------------------- the host
AddrStrs == [1..Width -> Digit]

\* One IPv4 entry of netifaces.ifaddresses(iface)[AF_INET]: any address, and
\* a netmask as the kernel keeps them, ones followed by zeros.
Entries ==
    [addr : AddrStrs,
     netmask : {m \in AddrStrs : \A i, j \in 1..Width : i < j => m[i] >= m[j]}]

InetLists == UNION {[1..k -> Entries] : k \in 0..MaxEntries}

RECURSIVE EntryCount(_, _)
EntryCount(inets, i) ==
    IF i = 0 THEN 0 ELSE Len(inets[i]) + EntryCount(inets, i - 1)

\* The names netifaces.interfaces() lists: eth0, eth1, ...
IfaceName(i) == [dev |-> "eth", unit |-> i - 1]

\* The tables: MaxIfaces interfaces in enumeration order, each with zero or
\* more IPv4 entries (an interface with none has no AF_INET key).
Tables ==
    {[i \in 1..MaxIfaces |-> [name |-> IfaceName(i), inet |-> inets[i]]] :
        inets \in {f \in [1..MaxIfaces -> InetLists] :
                      EntryCount(f, MaxIfaces) <= MaxEntries}}

\* ------------------------------------------------------------- inputs
\* Address strings a caller passes: the well-formed ones, the empty string,
\* a digit out of range, a string one digit too long.
AddressInputs ==
    AddrStrs \cup {<<>>, [i \in 1..Width |-> 2], [i \in 1..Width + 1 |-> 0]}

\* Network strings a caller passes: "ip/prefixlen" (a prefix length one past
\* the width included), "ip", "ip/mask" for every mask, and strings with a
\* bad address part, an empty address part, a bad mask part.
CidrInputs ==
    {Slash(ip, n) : ip \in AddrStrs, n \in 0..Width + 1}
        \cup {Bare(ip) : ip \in AddrStrs}
        \cup {SlashMask([i \in 1..Width |-> 1], m) : m \in AddrStrs}
        \cup {Slash([i \in 1..Width |-> 2], 0), Bare(<<>>),
              SlashMask([i \in 1..Width |-> 0], [i \in 1..Width |-> 2])}
NetworkInputs == {None} \cup {Str(c) : c \in CidrInputs}

FallbackInputs == {None, Str([i \in 1..Width |-> 0])}

\* ------------------------------------------------------------- outcomes
Bool(b) == [tag |-> "bool", b |-> b]
Return(via, val) == [kind |-> "return", via |-> via, val |-> val]
Raise(exc, about) == [kind |-> "raise", exc |-> exc, about |-> about]
Exit(code) == [kind |-> "exit", code |-> code]
NoOutcome == [kind |-> "none"]
Idle == [op |-> "idle"]
NoPrev == [call |-> Idle, outcome |-> NoOutcome]

\* ------------------------------------------------------------- the code
\* What a call leaves behind: its outcome, the log, and whether it asked
\* netifaces for the interfaces.
Result(out, log, enum) == [outcome |-> out, logged |-> log, enumerated |-> enum]

\* A bug: the validation lets every string through.
validate_cidr_accepts_all(network) == TRUE

\* _validate_cidr(network): TRUE when IPNetwork accepts the string.
validate_cidr(network) == IPNetwork(network.s).ok

\* not_found_error_out(): log at ERROR, then sys.exit(1).
not_found_error_out(log, network, enum) ==
    LET entry == [level |-> "ERROR",
                  msg |-> "No IP address found in network", network |-> network]
    IN  Result(Exit(1), Append(log, entry), enum)

\* A bug: the last IPv4 entry is read instead of the first.
IfaceCidrLast(iface) ==
    IPNetwork(SlashMask(iface.inet[Len(iface.inet)].addr,
                        iface.inet[Len(iface.inet)].netmask))

\* The cidr of an interface's first IPv4 entry: IPNetwork("%s/%s" % (addr, netmask)).
IfaceCidr(iface) == IPNetwork(SlashMask(iface.inet[1].addr, iface.inet[1].netmask))

\* The loop of get_address_in_network from interface i on: the index of the
\* first interface with an AF_INET key whose cidr lies in the network, 0 when
\* the loop runs out.
RECURSIVE ScanForNetwork(_, _, _)
ScanForNetwork(table, i, net) ==
    IF i > Len(table) THEN 0
    ELSE IF Len(table[i].inet) > 0 /\ NetworkInNetwork(IfaceCidr(table[i]), net)
         THEN i
         ELSE ScanForNetwork(table, i + 1, net)

\* A bug: fatal is looked at before the fallback.
not_found_fatal_first(log, network, fallback, fatal, enum, via) ==
    IF fatal THEN not_found_error_out(log, network, enum)
    ELSE IF fallback # None THEN Result(Return("fallback", fallback), log, enum)
    ELSE Result(Return(via, None), log, enum)

\* Lines 63-69: nothing was found; fallback, else the fatal exit, else None.
not_found(log, network, fallback, fatal, enum, via) ==
    IF fallback # None THEN Result(Return("fallback", fallback), log, enum)
    ELSE IF fatal THEN not_found_error_out(log, network, enum)
    ELSE Result(Return(via, None), log, enum)

\* A bug: with fatal set the fallback is not looked at.
network_is_none_fatal_first(log, network, fallback, fatal, exc) ==
    IF fatal THEN not_found_error_out(log, network, FALSE)
    ELSE IF fallback # None THEN Result(Return("fallback", fallback), log, FALSE)
    ELSE Result(Raise(exc, "network"), log, FALSE)

\* Lines 46-53 with network None: fallback, else the fatal exit, else the
\* call falls through to _validate_cidr(None), where netaddr raises exc
\* (a TypeError, which the except clause lets through, or one it turns into
\* a ValueError, by netaddr's version).
network_is_none(log, network, fallback, fatal, exc) ==
    IF fallback # None THEN Result(Return("fallback", fallback), log, FALSE)
    ELSE IF fatal THEN not_found_error_out(log, network, FALSE)
    ELSE Result(Raise(exc, "network"), log, FALSE)

\* get_address_in_network(network, fallback, fatal)
get_address_in_network(table, log, network, fallback, fatal, exc) ==
    IF network = None
    THEN network_is_none(log, network, fallback, fatal, exc)
    ELSE IF ~validate_cidr(network)
    THEN Result(Raise("ValueError", "network"), log, FALSE)
    ELSE LET found == ScanForNetwork(table, 1, IPNetwork(network.s))
         IN  IF found # 0
             THEN Result(Return("iface", Str(AddrStr(IfaceCidr(table[found]).value))),
                         log, TRUE)
             ELSE not_found(log, network, fallback, fatal, TRUE, "none")

\* is_address_in_network(network, address)
is_address_in_network(log, network, address) ==
    IF ~IPNetwork(network).ok
    THEN Result(Raise("ValueError", "network"), log, FALSE)
    ELSE IF ~IPAddress(address).ok
    THEN Result(Raise("ValueError", "address"), log, FALSE)
    ELSE Result(Return("bool",
                       Bool(AddressInNetwork(IPAddress(address).value, IPNetwork(network)))),
                log, FALSE)

\* A bug: the last interface that holds the address wins.
ScanForAddressLast(table, i, v) ==
    LET M == {k \in i..Len(table) :
                 Len(table[k].inet) > 0 /\ AddressInNetwork(v, IfaceCidr(table[k]))}
    IN  IF M = {} THEN 0 ELSE CHOOSE k \in M : \A j \in M : j <= k

\* A bug: an interface matches only the address it is configured with.
ScanForAddressExact(table, i, v) ==
    LET M == {k \in i..Len(table) :
                 Len(table[k].inet) > 0 /\ IfaceCidr(table[k]).value = v}
    IN  IF M = {} THEN 0 ELSE CHOOSE k \in M : \A j \in M : k <= j

\* The loop of _get_for_address from interface i on.
RECURSIVE ScanForAddress(_, _, _)
ScanForAddress(table, i, v) ==
    IF i > Len(table) THEN 0
    ELSE IF Len(table[i].inet) > 0 /\ AddressInNetwork(v, IfaceCidr(table[i]))
         THEN i
         ELSE ScanForAddress(table, i + 1, v)

\* _get_for_address(address, key)
get_for_address(table, log, address, key) ==
    IF ~IPAddress(address).ok
    THEN Result(Raise("AddrFormatError", "address"), log, FALSE)
    ELSE LET found == ScanForAddress(table, 1, IPAddress(address).value)
         IN  IF found = 0 THEN Result(Return("none", None), log, TRUE)
             ELSE IF key = "iface"
             THEN Result(Return("iface", [tag |-> "name", name |-> table[found].name]),
                         log, TRUE)
             ELSE Result(Return("iface", Str(table[found].inet[1][key])), log, TRUE)

get_iface_for_address(table, log, address) ==
    get_for_address(table, log, address, "iface")

get_netmask_for_address(table, log, address) ==
    get_for_address(table, log, address, "netmask")

\* ------------------------------------------------------------- actions
Live == outcome.kind # "exit"

Finish(c, r) ==
    /\ Live
    /\ call' = c
    /\ outcome' = r.outcome
    /\ logged' = r.logged
    /\ enumerated' = r.enumerated
    /\ prev' = [call |-> call, outcome |-> outcome]
    /\ UNCHANGED ifaces

CallGetAddressInNetwork(network, fallback, fatal, exc) ==
    Finish([op |-> "get_address_in_network", network |-> network,
            fallback |-> fallback, fatal |-> fatal],
           get_address_in_network(ifaces, logged, network, fallback, fatal, exc))

CallIsAddressInNetwork(network, address) ==
    Finish([op |-> "is_address_in_network", network |-> network, address |-> address],
           is_address_in_network(logged, network, address))

CallGetIfaceForAddress(address) ==
    Finish([op |-> "get_iface_for_address", address |-> address],
           get_iface_for_address(ifaces, logged, address))

CallGetNetmaskForAddress(address) ==
    Finish([op |-> "get_netmask_for_address", address |-> address],
           get_netmask_for_address(ifaces, logged, address))

\* A caller that holds an address get_address_in_network took from an interface.
HoldsAddress ==
    /\ call.op = "get_address_in_network"
    /\ outcome.kind = "return"
    /\ outcome.via = "iface"

NoneExceptions == {"TypeError", "ValueError"}

Init ==
    /\ ifaces \in Tables
    /\ call = Idle
    /\ outcome = NoOutcome
    /\ prev = NoPrev
    /\ logged = <<>>
    /\ enumerated = FALSE

Next ==
    \/ /\ call = Idle
       /\ \E network \in NetworkInputs, fallback \in FallbackInputs,
             fatal \in BOOLEAN, exc \in NoneExceptions :
             CallGetAddressInNetwork(network, fallback, fatal, exc)
    \/ /\ call = Idle
       /\ \E c \in CidrInputs, address \in AddressInputs :
             CallIsAddressInNetwork(c, address)
    \/ /\ call = Idle
       /\ \E address \in AddressInputs : CallGetIfaceForAddress(address)
    \/ /\ call = Idle
       /\ \E address \in AddressInputs : CallGetNetmaskForAddress(address)
    \/ /\ HoldsAddress
       /\ prev = NoPrev
       /\ CallIsAddressInNetwork(call.network.s, outcome.val.s)
    \/ /\ HoldsAddress
       /\ prev = NoPrev
       /\ CallGetIfaceForAddress(outcome.val.s)
    \/ /\ HoldsAddress
       /\ prev = NoPrev
       /\ CallGetNetmaskForAddress(outcome.val.s)
    \/ /\ call.op = "get_iface_for_address"
       /\ prev = NoPrev
       /\ CallGetNetmaskForAddress(call.address)
    \/ /\ call.op = "get_netmask_for_address"
       /\ prev = NoPrev
       /\ CallGetIfaceForAddress(call.address)

Spec == Init /\ [][Next]_vars

\* ------------------------------------------------------------- claims
\* What the claims speak of, said on the strings themselves.
WellFormedAddr(s) == Len(s) = Width /\ \A i \in 1..Len(s) : s[i] \in {0, 1}
NetmaskShaped(m) == \A i, j \in 1..Width : i < j => m[i] >= m[j]
HostmaskShaped(m) == \A i, j \in 1..Width : i < j => m[i] <= m[j]
WellFormedCidr(c) ==
    /\ WellFormedAddr(c.ip)
    /\ \/ c.sfx = "none"
       \/ c.sfx = "plen" /\ c.n \in 0..Width
       \/ c.sfx = "mask" /\ WellFormedAddr(c.m)
                         /\ (NetmaskShaped(c.m) \/ HostmaskShaped(c.m))
Ones(m) == Cardinality({i \in 1..Width : m[i] = 1})
\* The prefix length a well-formed network string stands for.
PrefixOf(c) ==
    IF c.sfx = "none" THEN Width
    ELSE IF c.sfx = "plen" THEN c.n
    ELSE IF NetmaskShaped(c.m) THEN Ones(c.m) ELSE Width - Ones(c.m)
\* The address strings in the range of (ip, prefix length).
RangeOf(ip, n) == {a \in AddrStrs : \A i \in 1..n : a[i] = ip[i]}
NetworkRange(c) == RangeOf(c.ip, PrefixOf(c))
\* The subnet of an IPv4 entry: its address under its netmask.
Subnet(e) == RangeOf(e.addr, Ones(e.netmask))
HasInet(i) == Len(ifaces[i].inet) > 0
\* The interfaces whose first IPv4 entry's subnet lies inside the network c.
Inside(c) == {i \in 1..MaxIfaces : HasInet(i) /\ Subnet(ifaces[i].inet[1]) \subseteq NetworkRange(c)}
\* The interfaces whose first IPv4 entry's subnet holds the address a.
Holding(a) == {i \in 1..MaxIfaces : HasInet(i) /\ a \in Subnet(ifaces[i].inet[1])}
Lowest(S) == CHOOSE i \in S : \A j \in S : i <= j

IsGet == call.op = "get_address_in_network"
IsGetWellFormed == IsGet /\ call.network # None /\ WellFormedCidr(call.network.s)
IsIn == call.op = "is_address_in_network"
IsIface == call.op = "get_iface_for_address"
IsNetmaskCall == call.op = "get_netmask_for_address"
FromIface == outcome.kind = "return" /\ outcome.via = "iface"

\* C1: for a well-formed network, get_address_in_network returns the address
\* of the first interface, in enumeration order, whose first IPv4 entry's
\* subnet lies entirely inside the network; an interface whose address is in
\* the network but whose subnet is wider does not match, and when no
\* interface matches no interface's address is returned.
C1_FirstInside ==
    IsGetWellFormed =>
        IF Inside(call.network.s) # {}
        THEN outcome = Return("iface",
                 Str(ifaces[Lowest(Inside(call.network.s))].inet[1].addr))
        ELSE ~FromIface

\* C1 happens: the first interface's address is in the network but its
\* subnet is wider, the second one's subnet is inside, the second is returned.
C1_Witness ==
    /\ IsGetWellFormed
    /\ HasInet(1) /\ HasInet(2)
    /\ ifaces[1].inet[1].addr \in NetworkRange(call.network.s)
    /\ 1 \notin Inside(call.network.s)
    /\ 2 \in Inside(call.network.s)
    /\ ifaces[1].inet[1].addr # ifaces[2].inet[1].addr
    /\ outcome = Return("iface", Str(ifaces[2].inet[1].addr))

\* C2: network None, no fallback, fatal false: the call returns None.
C2_NoneReturnsNone ==
    (IsGet /\ call.network = None /\ call.fallback = None /\ ~call.fatal)
        => outcome = Return("none", None)

NoAddress == call.network = None \/ Inside(call.network.s) = {}

\* C3: for an absent or well-formed network the process exits exactly when
\* fatal is set, no fallback is given and no address was found; at the exit
\* the last log entry is at ERROR and the code is 1.
C3_ExitIff ==
    (IsGet /\ (call.network = None \/ WellFormedCidr(call.network.s))) =>
        /\ outcome.kind = "exit" <=>
              (call.fatal /\ call.fallback = None /\ NoAddress)
        /\ outcome.kind = "exit" =>
              /\ outcome.code = 1
              /\ Len(logged) > 0
              /\ logged[Len(logged)].level = "ERROR"
        /\ outcome.kind # "exit" => logged = <<>>

\* C3 happens: a host with IPv4 addresses, none inside the network, exits.
C3_Witness ==
    /\ IsGetWellFormed
    /\ HasInet(1) /\ HasInet(2)
    /\ outcome.kind = "exit"

\* C4: the fallback is what the call returns exactly when one is given and
\* the network is absent, or well-formed with no interface inside it; with
\* the network absent the interfaces are not enumerated; when an interface
\* is inside the network its address is returned, not the fallback.
C4_FallbackIff ==
    IsGet =>
        /\ (outcome.kind = "return" /\ outcome.via = "fallback") <=>
              /\ call.fallback # None
              /\ \/ call.network = None
                 \/ WellFormedCidr(call.network.s) /\ Inside(call.network.s) = {}
        /\ (outcome.kind = "return" /\ outcome.via = "fallback") =>
              outcome.val = call.fallback
        /\ (call.network = None /\ call.fallback # None) => ~enumerated
        /\ (IsGetWellFormed /\ Inside(call.network.s) # {}) => FromIface

\* C4 happens: a fallback is given that an interface also carries, the
\* network is well-formed, and the fallback is returned after the scan.
C4_Witness ==
    /\ IsGetWellFormed
    /\ HasInet(1)
    /\ call.fallback = Str(ifaces[1].inet[1].addr)
    /\ call.fatal
    /\ enumerated
    /\ outcome = Return("fallback", call.fallback)

\* C5: a malformed input never yields a normal result.  A malformed network
\* given to get_address_in_network raises ValueError whatever fallback and
\* fatal are, before the interfaces are enumerated; is_address_in_network
\* raises ValueError about the network if it is malformed, else about the
\* address if that is; get_iface_for_address and get_netmask_for_address
\* raise on a malformed address.
C5_MalformedRaises ==
    /\ (IsGet /\ call.network # None /\ ~WellFormedCidr(call.network.s)) =>
          /\ outcome = Raise("ValueError", "network")
          /\ ~enumerated
          /\ logged = <<>>
    /\ (IsIn /\ ~WellFormedCidr(call.network)) =>
          outcome = Raise("ValueError", "network")
    /\ (IsIn /\ WellFormedCidr(call.network) /\ ~WellFormedAddr(call.address)) =>
          outcome = Raise("ValueError", "address")
    /\ ((IsIface \/ IsNetmaskCall) /\ ~WellFormedAddr(call.address)) =>
          /\ outcome.kind = "raise"
          /\ ~enumerated

\* C5 happens: a malformed network with a fallback and fatal set, on a host
\* with an interface, raises.
C5_Witness ==
    /\ IsGet
    /\ call.network # None
    /\ ~WellFormedCidr(call.network.s)
    /\ call.fallback # None
    /\ call.fatal
    /\ HasInet(1)
    /\ outcome.kind = "raise"

\* C6: for a well-formed network and address, is_address_in_network returns
\* TRUE exactly when the address agrees with the network's address on the
\* digits under the prefix length, FALSE otherwise, and raises nothing.
C6_InRange ==
    (IsIn /\ WellFormedCidr(call.network) /\ WellFormedAddr(call.address)) =>
        outcome = Return("bool", Bool(call.address \in NetworkRange(call.network)))

\* C6 happens: a network with host bits to spare holds an address other
\* than its own.
C6_Witness ==
    /\ IsIn
    /\ WellFormedCidr(call.network)
    /\ PrefixOf(call.network) \in 1..Width - 1
    /\ call.address # call.network.ip
    /\ outcome = Return("bool", Bool(TRUE))

NameOf(i) == [tag |-> "name", name |-> ifaces[i].name]
\* The call before this one was the other lookup, for the same address.
PairedLookup ==
    /\ IsIface \/ IsNetmaskCall
    /\ prev.call.op \in {"get_iface_for_address", "get_netmask_for_address"}
    /\ prev.call.op # call.op
    /\ prev.call.address = call.address

\* C7: for a well-formed address, get_iface_for_address returns the name and
\* get_netmask_for_address the netmask of the first interface, in
\* enumeration order, whose first IPv4 entry's subnet holds the address, and
\* None exactly when no interface's does; called one after the other for one
\* address, one result is None iff the other is, and otherwise both come
\* from one interface.
C7_FirstHolding ==
    /\ (IsIface /\ WellFormedAddr(call.address)) =>
          IF Holding(call.address) = {}
          THEN outcome = Return("none", None)
          ELSE outcome = Return("iface", NameOf(Lowest(Holding(call.address))))
    /\ (IsNetmaskCall /\ WellFormedAddr(call.address)) =>
          IF Holding(call.address) = {}
          THEN outcome = Return("none", None)
          ELSE outcome = Return("iface",
                   Str(ifaces[Lowest(Holding(call.address))].inet[1].netmask))
    /\ (PairedLookup /\ WellFormedAddr(call.address)) =>
          /\ outcome.val = None <=> prev.outcome.val = None
          /\ outcome.val # None =>
                \E i \in 1..MaxIfaces :
                    /\ HasInet(i)
                    /\ {outcome.val, prev.outcome.val} =
                          {NameOf(i), Str(ifaces[i].inet[1].netmask)}

\* C7 happens: two interfaces with different netmasks both hold the address;
\* the name, then the netmask, of the first were returned.
C7_Witness ==
    /\ IsNetmaskCall
    /\ PairedLookup
    /\ Holding(call.address) = {1, 2}
    /\ ifaces[1].inet[1].netmask # ifaces[2].inet[1].netmask
    /\ prev.outcome = Return("iface", NameOf(1))
    /\ outcome = Return("iface", Str(ifaces[1].inet[1].netmask))

\* The address is the configured address of some interface.
Bound(a) ==
    \E i \in 1..MaxIfaces : \E k \in 1..Len(ifaces[i].inet) : ifaces[i].inet[k].addr = a

\* C8 as stated: a well-formed address that no interface is configured with
\* gets None from get_iface_for_address and get_netmask_for_address.
C8_UnboundIsNone ==
    ((IsIface \/ IsNetmaskCall) /\ WellFormedAddr(call.address) /\ ~Bound(call.address))
        => outcome = Return("none", None)

\* C8, amended: for a well-formed address that no interface is configured
\* with, the two lookups return None exactly when no interface's first IPv4
\* entry's subnet holds the address; inside such a subnet they return that
\* interface's name or netmask.
C8_UnboundNoneIffOutside ==
    ((IsIface \/ IsNetmaskCall) /\ WellFormedAddr(call.address) /\ ~Bound(call.address))
        => /\ outcome.kind = "return"
           /\ outcome.val = None <=> Holding(call.address) = {}

\* C8 happens: an address no interface is configured with, inside an
\* interface's subnet, gets that interface's name.
C8_Witness ==
    /\ IsIface
    /\ WellFormedAddr(call.address)
    /\ ~Bound(call.address)
    /\ Holding(call.address) # {}
    /\ outcome.kind = "return"
    /\ outcome.val # None

\* Some interface has a second or later IPv4 entry whose subnet holds a.
LaterEntryHolding(a) ==
    \E i \in 1..MaxIfaces : \E k \in 2..Len(ifaces[i].inet) : a \in Subnet(ifaces[i].inet[k])

\* C9: the three scans read only the first IPv4 entry of an interface: with
\* well-formed arguments no scan raises, whatever interfaces have no IPv4
\* entry, and when no interface's first entry matches the scan selects no
\* interface, whatever the later entries are; what a scan returns from an
\* interface is in that interface's first entry.
C9_FirstEntryOnly ==
    /\ IsGetWellFormed =>
          /\ outcome.kind # "raise"
          /\ Inside(call.network.s) = {} => ~FromIface
          /\ FromIface => \E i \in Inside(call.network.s) :
                              outcome.val = Str(ifaces[i].inet[1].addr)
    /\ ((IsIface \/ IsNetmaskCall) /\ WellFormedAddr(call.address)) =>
          /\ outcome.kind # "raise"
          /\ Holding(call.address) = {} => outcome = Return("none", None)
          /\ (IsNetmaskCall /\ FromIface) =>
                \E i \in Holding(call.address) :
                    outcome.val = Str(ifaces[i].inet[1].netmask)

\* C9 happens: the first interface has no IPv4 entry, the second has two,
\* of which only the second holds the address: the lookup returns None.
C9_Witness ==
    /\ IsNetmaskCall
    /\ WellFormedAddr(call.address)
    /\ ~HasInet(1)
    /\ Len(ifaces[2].inet) = 2
    /\ call.address \notin Subnet(ifaces[2].inet[1])
    /\ LaterEntryHolding(call.address)
    /\ outcome = Return("none", None)

\* The call before this one was a get_address_in_network that returned an
\* interface's address.
AfterGet ==
    /\ prev.call.op = "get_address_in_network"
    /\ prev.outcome.kind = "return"
    /\ prev.outcome.via = "iface"

\* C10: over one interface table, the address get_address_in_network took
\* from an interface is in the network by is_address_in_network, and
\* get_iface_for_address and get_netmask_for_address return for it the name
\* and the netmask of an interface whose subnet holds it.
C10_Consistent ==
    AfterGet =>
        /\ (IsIn /\ call.network = prev.call.network.s
                 /\ call.address = prev.outcome.val.s) =>
              outcome = Return("bool", Bool(TRUE))
        /\ (IsIface /\ call.address = prev.outcome.val.s) =>
              /\ outcome.kind = "return"
              /\ \E i \in Holding(call.address) : outcome.val = NameOf(i)
        /\ (IsNetmaskCall /\ call.address = prev.outcome.val.s) =>
              /\ outcome.kind = "return"
              /\ \E i \in Holding(call.address) :
                    outcome.val = Str(ifaces[i].inet[1].netmask)

\* C10 happens: the second interface supplied the address, and the lookup
\* names the first, whose wider subnet holds it too.
C10_Witness ==
    /\ AfterGet
    /\ IsIface
    /\ HasInet(1) /\ HasInet(2)
    /\ prev.outcome.val = Str(ifaces[2].inet[1].addr)
    /\ ifaces[1].inet[1].addr # ifaces[2].inet[1].addr
    /\ 1 \notin Inside(prev.call.network.s)
    /\ outcome = Return("iface", NameOf(1))

====
